---- MODULE Spec2Model ----
(***************************************************************************)
(* Model of the SL <-> Flask bridge (src/app_cf_1757118289.py; src/app.py  *)
(* is the same service without the SQLite store and without reply          *)
(* sanitising, i.e. the PERSIST_ENABLED = FALSE behaviours of this model). *)
(*                                                                         *)
(* Texts are sequences of one-character strings, so that len(), strip(),   *)
(* slicing and the regular-expression clean-up are computed, not assumed.  *)
(***************************************************************************)
EXTENDS Integers, Sequences, FiniteSets, TLC

VARIABLES
    PERSIST_ENABLED,  \* configuration flag read once at import
    marsReady,        \* _mars_ready(): MARS_API_KEY and MARS_API_URL both set
    PROFILE_MAP,      \* _load_profiles(PROFILES_JSON)
    DEFAULT_PROFILE,  \* configured default profile key
    MARS_SYSTEM,      \* single fallback persona text
    MEMORY_TURNS_DEFAULT, \* int(os.getenv("MEMORY_TURNS", ...)): turns when none is asked
    history,          \* _history: session key -> deque (NoDeque when the key is absent)
    db,               \* rows of table memory per session, in (ts, rowid) order
    sinceHit,         \* per IP: ticks since _last_hit_by_ip[ip], saturating at the window
    req,              \* per worker: the request being served (its locals, what
                      \* upstream did, and its response)
    pushes,           \* number of _push_history calls made so far (bounded)
    log,              \* per session: the last LogKeep turns _push_history appended
    call,             \* a request body studied on its own: the argument of
                      \* _resolve_profile, its result and what chat builds from it
    lock              \* _db_lock: the worker inside a "with _db_lock" block,
                      \* None when the lock is free

config == <<PERSIST_ENABLED, marsReady, PROFILE_MAP, DEFAULT_PROFILE, MARS_SYSTEM,
            MEMORY_TURNS_DEFAULT>>

vars == <<config, history, db, sinceHit, req, pushes, log, call, lock>>

None == "None"

(* ------------------------------ texts --------------------------------- *)

Max(a, b) == IF a >= b THEN a ELSE b
Min(a, b) == IF a <= b THEN a ELSE b

IsSpace(c) == c \in {" ", "\n", "\t"}

\* str.strip(): drop leading and trailing whitespace
RECURSIVE LStrip(_)
LStrip(s) == IF s # <<>> /\ IsSpace(Head(s)) THEN LStrip(Tail(s)) ELSE s

RECURSIVE RStrip(_)
RStrip(s) ==
    IF s # <<>> /\ IsSpace(s[Len(s)]) THEN RStrip(SubSeq(s, 1, Len(s) - 1)) ELSE s

Strip(s) == RStrip(LStrip(s))

\* s[:n]
Prefix(s, n) == SubSeq(s, 1, Min(Len(s), Max(0, n)))

\* s[-n:] for n > 0
LastN(s, n) == SubSeq(s, Len(s) - Min(Len(s), n) + 1, Len(s))

UPPER == <<"A", "B", "C", "D", "E", "F", "G", "H", "I", "J", "K", "L", "M",
           "N", "O", "P", "Q", "R", "S", "T", "U", "V", "W", "X", "Y", "Z">>
LOWER == <<"a", "b", "c", "d", "e", "f", "g", "h", "i", "j", "k", "l", "m",
           "n", "o", "p", "q", "r", "s", "t", "u", "v", "w", "x", "y", "z">>

LowerOf == [c \in {UPPER[i] : i \in 1..Len(UPPER)} |->
               LOWER[CHOOSE i \in 1..Len(UPPER) : UPPER[i] = c]]

\* str.lower() of one character
Lower(c) == IF c \in DOMAIN LowerOf THEN LowerOf[c] ELSE c

\* the regular expression's alternatives: </s>, [INST], [/INST]
TOKENS ==
    { <<"<", "/", "s", ">">>,
      <<"[", "i", "n", "s", "t", "]">>,
      <<"[", "/", "i", "n", "s", "t", "]">> }

\* does token tok start at position i of s (re.IGNORECASE)
MatchAt(s, i, tok) ==
    /\ i + Len(tok) - 1 <= Len(s)
    /\ \A k \in 1..Len(tok) : Lower(s[i + k - 1]) = tok[k]

\* first position >= i that is not whitespace (the trailing \s* of the pattern)
RECURSIVE SkipSpace(_, _)
SkipSpace(s, i) == IF i <= Len(s) /\ IsSpace(s[i]) THEN SkipSpace(s, i + 1) ELSE i

\* re.sub(r'(</s>|\[/?INST\])\s*', '', s): left to right, non-overlapping
RECURSIVE SubTokens(_, _)
SubTokens(s, i) ==
    IF i > Len(s) THEN <<>>
    ELSE IF \E tok \in TOKENS : MatchAt(s, i, tok)
         THEN LET tok == CHOOSE t \in TOKENS : MatchAt(s, i, t)
              IN  SubTokens(s, SkipSpace(s, i + Len(tok)))
         ELSE <<s[i]>> \o SubTokens(s, i + 1)

\* s.replace('\u200b', ''): the zero-width space is written "zwsp"
DropZwsp(s) == SelectSeq(s, LAMBDA c : c # "zwsp")

_clean_artifacts(s) ==
    IF s = <<>> THEN s ELSE Strip(DropZwsp(SubTokens(s, 1)))

CLIP_LIMIT == 900

\* (s[:limit-3] + "...") if len(s) > limit else s
_clip(s, limit) ==
    IF Len(s) > limit THEN Prefix(s, limit - 3) \o <<".", ".", ".">> ELSE s

(* ----------------------------- constants ------------------------------ *)

\* environment knobs (MEMORY_TURNS, MEMORY_MAX_CHARS), set small so that the
\* count window and the character budget are both reached by short texts
MEMORY_MAX_CHARS == 4

\* RATE_WINDOW_SECONDS = 2.5, counted in ticks of 1.25 s
RATE_WINDOW_TICKS == 2

AUTH_TOKEN == "change-me"

Turn(role, content) == [role |-> role, content |-> content]

\* sum of len(content) over a list of turns
RECURSIVE TotalChars(_)
TotalChars(ms) ==
    IF ms = <<>> THEN 0 ELSE Len(Head(ms).content) + TotalChars(Tail(ms))

(* ------------------------- persistence (SQLite) ------------------------ *)
(* Rows of one session are kept in insertion order.  ts is a millisecond    *)
(* clock that never decreases and the index idx_mem_sid_ts orders equal ts  *)
(* by rowid, so ORDER BY ts DESC reads the rows newest insertion first.     *)

_db_append_msg(rows, role, content) ==
    IF ~PERSIST_ENABLED THEN rows ELSE Append(rows, Turn(role, content))

\* the loop of _db_fetch_recent: from the newest row backwards, stop at the
\* first row that takes the running total above the cap
RECURSIVE FetchPrune(_, _, _)
FetchPrune(rows, total, cap) ==
    IF rows = <<>> THEN <<>>
    ELSE LET m == rows[Len(rows)]
             t == total + Len(m.content)
         IN  IF t > Max(0, cap) THEN <<>>
             ELSE Append(FetchPrune(SubSeq(rows, 1, Len(rows) - 1), t, cap), m)

_db_fetch_recent(rows, turns, char_cap) ==
    IF ~PERSIST_ENABLED THEN <<>>
    ELSE FetchPrune(LastN(rows, 2 * Max(1, turns) * 3), 0, char_cap)

\* the loop of _db_trim_to_limits over rows i, i-1, ..., 1 (newest first):
\* a row is deleted when kept >= keep or it would take the total above the
\* cap, and the loop goes on to the older rows either way
RECURSIVE TrimLoop(_, _, _, _, _, _)
TrimLoop(rows, i, keep, kept, total, cap) ==
    IF i = 0 THEN <<>>
    ELSE LET ln == Len(rows[i].content)
         IN  IF kept >= keep \/ total + ln > Max(0, cap)
             THEN TrimLoop(rows, i - 1, keep, kept, total, cap)
             ELSE Append(TrimLoop(rows, i - 1, keep, kept + 1, total + ln, cap), rows[i])

_db_trim_to_limits(rows, turns, char_cap) ==
    IF ~PERSIST_ENABLED THEN rows
    ELSE TrimLoop(rows, Len(rows), 2 * Max(1, turns), 0, 0, char_cap)

\* the rowcount _db_clear_session returns; the session's rows are all deleted
_db_clear_session_Zero(rows) == 0

_db_clear_session(rows) == IF ~PERSIST_ENABLED THEN 0 ELSE Len(rows)

(* ------------------------- history in memory --------------------------- *)

Deque(items, maxlen) == [maxlen |-> maxlen, items |-> LastN(items, maxlen)]

\* the entry of a key that _history does not hold
NoDeque == [maxlen |-> 0 - 1, items |-> <<>>]

\* deque.append with maxlen: a full deque drops its leftmost item
DequeAppend(dq, x) ==
    [dq EXCEPT !.items = LastN(Append(dq.items, x), dq.maxlen)]

\* _history.get(sid) or deque(maxlen=2*MEMORY_TURNS_DEFAULT): an absent key
\* and an empty deque both give a fresh deque
_get_history(sid) ==
    IF history[sid] = NoDeque \/ history[sid].items = <<>>
    THEN Deque(<<>>, 2 * MEMORY_TURNS_DEFAULT)
    ELSE history[sid]

\* the char-cap loop of _apply_memory: from the first turn of the window
\* onwards, stop at the first turn that takes the running total above the cap
RECURSIVE ApplyPrune(_, _)
ApplyPrune(hist, total) ==
    IF hist = <<>> THEN <<>>
    ELSE LET t == total + Len(Head(hist).content)
         IN  IF t > MEMORY_MAX_CHARS THEN <<>>
             ELSE <<Head(hist)>> \o ApplyPrune(Tail(hist), t)

\* the window counted in turns instead of pairs
MemoryWindow_TurnsNotPairs(sid, turns) ==
    LET dq     == _get_history(sid)
        cold   == dq.items = <<>> /\ PERSIST_ENABLED
        hist0  == IF cold THEN _db_fetch_recent(db[sid], turns, MEMORY_MAX_CHARS)
                  ELSE dq.items
        needed == Max(0, Min(Len(hist0), turns))
        hist   == IF needed # 0 THEN LastN(hist0, needed) ELSE <<>>
    IN  ApplyPrune(hist, 0)

\* the history part of _apply_memory's result (pruned), before "+ messages"
MemoryWindow(sid, turns) ==
    LET dq     == _get_history(sid)
        cold   == dq.items = <<>> /\ PERSIST_ENABLED
        hist0  == IF cold THEN _db_fetch_recent(db[sid], turns, MEMORY_MAX_CHARS)
                  ELSE dq.items
        needed == Max(0, Min(Len(hist0), 2 * turns))
        hist   == IF needed # 0 THEN LastN(hist0, needed) ELSE <<>>
    IN  ApplyPrune(hist, 0)

\* _apply_memory goes to the table: memory is on, the cache has nothing
\* for the session and persistence is on
ReadsTable(sid, use_memory_flag) ==
    use_memory_flag /\ PERSIST_ENABLED /\ _get_history(sid).items = <<>>

\* the history spliced in whatever the flag says
_apply_memory_FlagIgnored(messages, sid, turns, use_memory_flag) ==
    MemoryWindow(sid, turns) \o messages

_apply_memory(messages, sid, turns, use_memory_flag) ==
    IF ~use_memory_flag THEN messages
    ELSE MemoryWindow(sid, turns) \o messages

\* the capacity counted in turns instead of pairs
TargetMaxlen_OnePerTurn(turns) == Max(1, turns)

\* target_maxlen = 2*max(1, int(turns))
TargetMaxlen(turns) == 2 * Max(1, turns)

\* _push_history without the rebuild of the deque at the new maxlen
PushDeque_NoResize(sid, user_msg, assistant_msg, turns) ==
    DequeAppend(DequeAppend(_get_history(sid), Turn("user", user_msg)),
                Turn("assistant", assistant_msg))

\* the deque _push_history stores for the session
PushDeque(sid, user_msg, assistant_msg, turns) ==
    LET dq0           == _get_history(sid)
        target_maxlen == TargetMaxlen(turns)
        dq1           == IF dq0.maxlen # target_maxlen
                         THEN Deque(dq0.items, target_maxlen) ELSE dq0
    IN  DequeAppend(DequeAppend(dq1, Turn("user", user_msg)),
                    Turn("assistant", assistant_msg))

\* the rows _push_history leaves in the table for the session
PushRows(sid, user_msg, assistant_msg, turns) ==
    IF ~PERSIST_ENABLED THEN db[sid]
    ELSE _db_trim_to_limits(
             _db_append_msg(_db_append_msg(db[sid], "user", user_msg),
                            "assistant", assistant_msg),
             turns, MEMORY_MAX_CHARS)

(* ------------------------------ JSON values ---------------------------- *)
(* A payload field is absent/null, a boolean, a number or a string.        *)

JNone == [t |-> "none", b |-> FALSE, n |-> 0, s |-> <<>>]
JBool(x) == [t |-> "bool", b |-> x, n |-> 0, s |-> <<>>]
JNum(x) == [t |-> "num", b |-> FALSE, n |-> x, s |-> <<>>]
JStr(x) == [t |-> "str", b |-> FALSE, n |-> 0, s |-> x]

LowerText(s) == [i \in 1..Len(s) |-> Lower(s[i])]

\* ("0", "false", "off", "no")
OFF_WORDS == { <<"0">>, <<"f", "a", "l", "s", "e">>, <<"o", "f", "f">>, <<"n", "o">> }

DIGITS == <<"0", "1", "2", "3", "4", "5", "6", "7", "8", "9">>

IsDigit(c) == \E i \in 1..Len(DIGITS) : DIGITS[i] = c

DigitValue(c) == (CHOOSE i \in 1..Len(DIGITS) : DIGITS[i] = c) - 1

\* the number a string of decimal digits writes
RECURSIVE DigitsValue(_)
DigitsValue(s) ==
    IF s = <<>> THEN 0
    ELSE 10 * DigitsValue(SubSeq(s, 1, Len(s) - 1)) + DigitValue(s[Len(s)])

\* int(text): surrounding whitespace and one sign are allowed around a
\* non-empty run of digits; anything else raises ValueError
IntOfText(text) ==
    LET t      == Strip(text)
        signed == t # <<>> /\ Head(t) \in {"+", "-"}
        d      == IF signed THEN Tail(t) ELSE t
        ok     == d # <<>> /\ \A i \in 1..Len(d) : IsDigit(d[i])
    IN  [ok |-> ok,
         n |-> IF ~ok THEN 0
               ELSE IF signed /\ Head(t) = "-" THEN 0 - DigitsValue(d)
               ELSE DigitsValue(d)]

\* int(v) of a JSON value: ok is FALSE when int() raises (TypeError for
\* null, ValueError for a text that is not a number)
IntOf(v) ==
    CASE v.t = "num" -> [ok |-> TRUE, n |-> v.n]
      [] v.t = "bool" -> [ok |-> TRUE, n |-> IF v.b THEN 1 ELSE 0]
      [] v.t = "str" -> IntOfText(v.s)
      [] OTHER -> [ok |-> FALSE, n |-> 0]

(* ------------------------------- profiles ------------------------------ *)
(* A profile is a bare string, an object, or a value of another type.      *)
(* Numbers with a fraction are written in tenths (temperature 0.5 is 5).   *)
(* The values of a memory block are JSON values, int() is applied to them. *)

EmptyMap == [k \in {} |-> 0]

ProfileStr(text) ==
    [kind |-> "str", text |-> text, fields |-> EmptyMap,
     parameters |-> EmptyMap, memory |-> EmptyMap]

ProfileDict(fields, parameters, memory) ==
    [kind |-> "dict", text |-> <<>>, fields |-> fields,
     parameters |-> parameters, memory |-> memory]

ProfileOther ==
    [kind |-> "other", text |-> <<>>, fields |-> EmptyMap,
     parameters |-> EmptyMap, memory |-> EmptyMap]

TEXT_FIELDS == <<"system", "backstory", "style", "rules", "memory_hint">>

\* max_tokens left out of the keys a profile can override
PARAM_KEYS_NoMaxTokens ==
    {"temperature", "frequency_penalty", "presence_penalty", "repetition_penalty"}

PARAM_KEYS ==
    {"temperature", "frequency_penalty", "presence_penalty",
     "repetition_penalty", "max_tokens"}

\* "\n\n".join(parts)
RECURSIVE JoinParts(_)
JoinParts(parts) ==
    IF parts = <<>> THEN <<>>
    ELSE IF Len(parts) = 1 THEN Head(parts)
    ELSE Head(parts) \o <<"\n", "\n">> \o JoinParts(Tail(parts))

\* the stripped non-blank text fields of an object profile, in TEXT_FIELDS order
RECURSIVE FieldParts(_, _)
FieldParts(source, i) ==
    IF i > Len(TEXT_FIELDS) THEN <<>>
    ELSE LET f == TEXT_FIELDS[i]
         IN  IF f \in DOMAIN source.fields /\ Strip(source.fields[f]) # <<>>
             THEN <<Strip(source.fields[f])>> \o FieldParts(source, i + 1)
             ELSE FieldParts(source, i + 1)

Resolved(system_text, overrides) ==
    [system_text |-> system_text, overrides |-> overrides]

\* the kill switch read from the strings only
IsKillSwitch_StringsOnly(use_system) ==
    use_system.t = "str" /\ LowerText(use_system.s) \in OFF_WORDS

IsKillSwitch(use_system) ==
    \/ use_system.t = "str" /\ LowerText(use_system.s) \in OFF_WORDS
    \/ use_system.t = "bool" /\ ~use_system.b

\* the default profile looked up before the requested key
SelectSource_DefaultFirst(key) ==
    IF DEFAULT_PROFILE # <<>> /\ DEFAULT_PROFILE \in DOMAIN PROFILE_MAP
    THEN [found |-> TRUE, source |-> PROFILE_MAP[DEFAULT_PROFILE]]
    ELSE IF key # <<>> /\ key \in DOMAIN PROFILE_MAP
    THEN [found |-> TRUE, source |-> PROFILE_MAP[key]]
    ELSE [found |-> FALSE, source |-> ProfileOther]

\* source: the requested profile, else the default one, else none
SelectSource(key) ==
    IF key # <<>> /\ key \in DOMAIN PROFILE_MAP
    THEN [found |-> TRUE, source |-> PROFILE_MAP[key]]
    ELSE IF DEFAULT_PROFILE # <<>> /\ DEFAULT_PROFILE \in DOMAIN PROFILE_MAP
    THEN [found |-> TRUE, source |-> PROFILE_MAP[DEFAULT_PROFILE]]
    ELSE [found |-> FALSE, source |-> ProfileOther]

\* what a profile of the map gives: its text, or its fields and parameters
ComposeProfile(source) ==
    CASE source.kind = "str" -> Resolved(source.text, EmptyMap)
      [] source.kind = "dict" ->
           LET keys == (DOMAIN source.parameters) \cap PARAM_KEYS
               mt   == IF "turns" \in DOMAIN source.memory
                       THEN {"memory_turns"} ELSE {}
           IN  Resolved(
                 JoinParts(FieldParts(source, 1)),
                 [k \in keys \cup mt |->
                     IF k = "memory_turns" THEN IntOf(source.memory["turns"]).n
                     ELSE source.parameters[k]])
      [] OTHER -> Resolved(<<>>, EmptyMap)

\* int(mem.get("turns", ...)) raises inside _resolve_profile
ProfileRaises(payload) ==
    /\ ~IsKillSwitch(payload.use_system)
    /\ LET sel == SelectSource(Strip(payload.profile))
       IN  /\ sel.found
           /\ sel.source.kind = "dict"
           /\ "turns" \in DOMAIN sel.source.memory
           /\ ~IntOf(sel.source.memory["turns"]).ok

_resolve_profile(payload) ==
    IF IsKillSwitch(payload.use_system) THEN Resolved(<<>>, EmptyMap)
    ELSE
      LET sel == SelectSource(Strip(payload.profile))
      IN  IF ~sel.found THEN Resolved(MARS_SYSTEM, EmptyMap)
          ELSE ComposeProfile(sel.source)

(* ------------------------------ upstream ------------------------------- *)

MARS_TEMPERATURE == 10
MARS_FREQUENCY_PENALTY == 0
MARS_PRESENCE_PENALTY == 0
MARS_REPETITION_PENALTY == 10
MARS_MAX_TOKENS == 220

ECHO_TAG == <<"[", "E", "C", "H", "O", "]", " ">>

\* what requests.post can come back with
Outcome(kind, reply) == [kind |-> kind, reply |-> reply]

\* mars_chat's (reply, err); reply None is ok = FALSE
MarsResult(ok, reply, err) == [ok |-> ok, reply |-> reply, err |-> err]

\* mars_chat returning the empty reply text instead of None for an empty body
mars_chat_EmptyReplyReturned(outcome) ==
    IF ~marsReady THEN MarsResult(FALSE, <<>>, "missing_mars_env")
    ELSE CASE outcome.kind = "json200" -> MarsResult(TRUE, outcome.reply, None)
           [] outcome.kind = "status" -> MarsResult(FALSE, <<>>, "upstream_500:no-body")
           [] OTHER -> MarsResult(FALSE, <<>>, "exception:Timeout")

mars_chat(outcome) ==
    IF ~marsReady THEN MarsResult(FALSE, <<>>, "missing_mars_env")
    ELSE CASE outcome.kind = "json200" ->
                IF outcome.reply # <<>> THEN MarsResult(TRUE, outcome.reply, None)
                ELSE MarsResult(FALSE, <<>>, "empty_json_body")
           [] outcome.kind = "status" -> MarsResult(FALSE, <<>>, "upstream_500:no-body")
           [] OTHER -> MarsResult(FALSE, <<>>, "exception:Timeout")

(* ------------------------------ requests ------------------------------- *)

Message(role, content) == [role |-> role, content |-> content]

\* _get_session_id: stripped session_id, else the remote address, cut to 128
_get_session_id(payload, ip) ==
    LET sid == Strip(payload.session_id)
    IN  Prefix(IF sid # <<>> THEN sid ELSE ip, 128)

NoResp ==
    [status |-> 0, ok |-> FALSE, error |-> None, reply |-> <<>>, mode |-> None,
     session_id |-> <<>>, mars_error |-> None, memory_turns |-> 0,
     used_memory |-> FALSE, removed |-> 0, history |-> <<>>]

\* _error(message, status)
ErrorResp(message, status) ==
    [NoResp EXCEPT !.status = status, !.ok = FALSE, !.error = message]

Payload(token, message, speaker, session_id, profile, use_system, use_memory, memory_turns) ==
    [token |-> token, message |-> message, speaker |-> speaker,
     session_id |-> session_id, profile |-> profile, use_system |-> use_system,
     use_memory |-> use_memory, memory_turns |-> memory_turns]

\* a worker between requests; route is the view function it is in, token
\* what _read_token gave, raw the message as it came in the body, the other
\* fields the view function's locals; dq is _push_history's local deque
\* when it is an object of its own, alias says that the local names the very
\* object _history holds for the session
Idle ==
    [pc |-> "idle", route |-> None, token |-> "unread", raw |-> <<>>,
     message |-> <<>>, speaker |-> <<>>, session_id |-> <<>>,
     memory_turns |-> 0, use_memory |-> FALSE, msgs |-> <<>>,
     eff_params |-> EmptyMap, outcome |-> Outcome(None, <<>>),
     alias |-> FALSE, dq |-> NoDeque, resp |-> NoResp]

\* a handler that returns without calling upstream
Returned(route, token, resp) ==
    [Idle EXCEPT !.pc = "done", !.route = route, !.token = token, !.resp = resp]

\* no body has been read
NoPayload == Payload("unread", <<>>, <<>>, <<>>, <<>>, JNone, JNone, JNone)

\* no call of _resolve_profile is under study
NoCall ==
    [pc |-> "none", payload |-> NoPayload, system_text |-> <<>>,
     overrides |-> EmptyMap, msgs |-> <<>>, eff_params |-> EmptyMap]

\* the message taken without strip()
MessageOf_NoStrip(payload) == payload.message

\* message = (payload.get("message") or "").strip()
MessageOf(payload) == Strip(payload.message)

\* use_memory = payload.get("use_memory", True), strings compared with the off words
UseMemory(payload) ==
    CASE payload.use_memory.t = "none" -> TRUE
      [] payload.use_memory.t = "str" -> LowerText(payload.use_memory.s) \notin OFF_WORDS
      [] payload.use_memory.t = "bool" -> payload.use_memory.b
      [] OTHER -> payload.use_memory.n # 0

\* overrides.get("memory_turns", payload.get("memory_turns", MEMORY_TURNS_DEFAULT)),
\* the value int() is applied to; a payload without the field gives the default
TurnsValue(overrides, payload) ==
    IF "memory_turns" \in DOMAIN overrides THEN JNum(overrides["memory_turns"])
    ELSE IF payload.memory_turns.t = "none" THEN JNum(MEMORY_TURNS_DEFAULT)
    ELSE payload.memory_turns

\* the request's memory_turns taken before the profile's
MemoryTurns_RequestFirst(overrides, payload) ==
    IF payload.memory_turns.t # "none" THEN IntOf(payload.memory_turns).n
    ELSE IF "memory_turns" \in DOMAIN overrides THEN overrides["memory_turns"]
    ELSE MEMORY_TURNS_DEFAULT

\* memory_turns = int(...)
MemoryTurns(overrides, payload) == IntOf(TurnsValue(overrides, payload)).n

\* an exception leaves chat before the upstream call: int() of the profile's
\* turns in _resolve_profile, or int() of the request's memory_turns
ChatRaises(payload) ==
    \/ ProfileRaises(payload)
    \/ ~IntOf(TurnsValue(_resolve_profile(payload).overrides, payload)).ok

Get(map, k, default) == IF k \in DOMAIN map THEN map[k] ELSE default

EffParams(overrides) ==
    [temperature |-> Get(overrides, "temperature", MARS_TEMPERATURE),
     frequency_penalty |-> Get(overrides, "frequency_penalty", MARS_FREQUENCY_PENALTY),
     presence_penalty |-> Get(overrides, "presence_penalty", MARS_PRESENCE_PENALTY),
     repetition_penalty |-> Get(overrides, "repetition_penalty", MARS_REPETITION_PENALTY),
     max_tokens |-> Get(overrides, "max_tokens", MARS_MAX_TOKENS)]

\* msgs as chat builds them: [user], system prepended, then _apply_memory
BuildMsgs(system_text, message, sid, turns, use_memory) ==
    LET m0 == <<Message("user", message)>>
        m1 == IF system_text # <<>> THEN <<Message("system", system_text)>> \o m0 ELSE m0
    IN  _apply_memory(m1, sid, turns, use_memory)

\* the window taken as half of RATE_WINDOW_SECONDS
RateLimited_HalfWindow(ip) == sinceHit[ip] < RATE_WINDOW_TICKS - 1

\* _rate_limit(ip) is False
RateLimited(ip) == sinceHit[ip] < RATE_WINDOW_TICKS

\* the token is never compared
Authorized_Always(payload) == TRUE

Authorized(payload) == ~(AUTH_TOKEN # "" /\ payload.token # AUTH_TOKEN)

(* ------------------------------- inputs -------------------------------- *)

MaxPushes == 3      \* _push_history calls in one behaviour
LogKeep == 4        \* appended turns remembered per session

IP1 == <<"9", ".", "9">>
IPs == {IP1}
S1 == <<"s", "1">>

\* every key _history and the table can hold here
SessionKeys == {IP1, S1}

Threads == {"w1", "w2"}
SyncWorker == "w1"

MSG_A == <<"a">>
MSG_B == <<"b", "b", "b", "b">>
REPLY_R == <<"r">>
K_SOJI == <<"s", "o", "j", "i">>
SYS_SOJI == <<"S", "o", "j", "i">>

\* authorized requests with a message: every session, profile and turn
\* count, memory switched off, the system prompt switched off, and a speaker
\* with an unknown profile
ChatPayloads ==
    { Payload(AUTH_TOKEN, m, <<>>, sid, pk, JNone, JNone, mt) :
        m \in {MSG_A, <<" ">> \o MSG_B},
        sid \in {<<>>, S1 \o <<" ">>},
        pk \in {<<>>, K_SOJI},
        mt \in {JNone, JNum(0), JNum(1)} }
    \cup
    { Payload(AUTH_TOKEN, MSG_A, <<>>, S1, <<>>, JNone, JStr(<<"O", "f", "f">>), JNone),
      Payload(AUTH_TOKEN, MSG_A, <<>>, S1, K_SOJI, JBool(FALSE), JNone, JNone),
      Payload(AUTH_TOKEN, MSG_A, <<"S">>, S1, <<"x">>, JNone, JNone, JNone) }

BadTokenPayloads ==
    { Payload(tok, MSG_A, <<>>, sid, <<>>, JNone, JNone, JNone) :
        tok \in {"bad", None}, sid \in {<<>>, S1} }

BlankPayloads ==
    { Payload(AUTH_TOKEN, m, <<>>, sid, K_SOJI, JNone, JNone, JNone) :
        m \in {<<>>, <<" ", "\n">>}, sid \in {<<>>, S1} }

\* every body /chat is sent here
ChatBodies == ChatPayloads \cup BadTokenPayloads \cup BlankPayloads

Outcomes ==
    { Outcome("json200", REPLY_R),
      Outcome("json200", <<"[", "I", "n", "s", "t", "]", " ">> \o REPLY_R \o <<"<", "/", "s", ">", " ">>),
      Outcome("json200", <<>>),
      Outcome("status", <<>>),
      Outcome("exception", <<>>) }

\* the profile configuration of the deployment under study
PROFILES ==
    [k \in {K_SOJI} |->
        ProfileDict([f \in {"system"} |-> SYS_SOJI \o <<" ">>],
                    [q \in {"temperature"} |-> 5],
                    [q \in {"turns"} |-> JNum(1)])]

(* -------------------------------- state -------------------------------- *)

Init ==
    /\ PERSIST_ENABLED \in BOOLEAN
    /\ marsReady \in BOOLEAN
    /\ PROFILE_MAP = PROFILES
    /\ DEFAULT_PROFILE = <<>>
    /\ MARS_SYSTEM = <<>>
    /\ MEMORY_TURNS_DEFAULT = 2
    /\ history = [k \in SessionKeys |-> NoDeque]
    /\ db = [k \in SessionKeys |-> <<>>]
    /\ sinceHit = [ip \in IPs |-> RATE_WINDOW_TICKS]
    /\ req = [w \in Threads |-> Idle]
    /\ pushes = 0
    /\ log = [k \in SessionKeys |-> <<>>]
    /\ call = NoCall
    /\ lock = None

Free(w) == req[w].pc = "idle"

(* ------------------------------- /chat --------------------------------- *)

\* 429: the window has not elapsed; nothing else is read
ChatTooMany(w, ip) ==
    /\ Free(w)
    /\ RateLimited(ip)
    /\ req' = [req EXCEPT ![w] = Returned("chat", "unread", ErrorResp("too_many_requests", 429))]
    /\ UNCHANGED <<config, call, lock, history, db, sinceHit, pushes, log>>

\* 401: the hit is recorded, then the token is refused
ChatUnauthorized(w, ip, payload) ==
    /\ Free(w)
    /\ ~RateLimited(ip)
    /\ ~Authorized(payload)
    /\ sinceHit' = [sinceHit EXCEPT ![ip] = 0]
    /\ req' = [req EXCEPT ![w] = Returned("chat", payload.token, ErrorResp("unauthorized", 401))]
    /\ UNCHANGED <<config, call, lock, history, db, pushes, log>>

\* 400: the message is blank after strip()
ChatNoMessage(w, ip, payload) ==
    /\ Free(w)
    /\ ~RateLimited(ip)
    /\ Authorized(payload)
    /\ MessageOf(payload) = <<>>
    /\ sinceHit' = [sinceHit EXCEPT ![ip] = 0]
    /\ req' = [req EXCEPT ![w] = Returned("chat", payload.token,
                                       ErrorResp("'message' is required", 400))]
    /\ UNCHANGED <<config, call, lock, history, db, pushes, log>>

\* what the server answers when a view function raises: 500 with an HTML
\* body, not the JSON object of _error
UnhandledResp ==
    [NoResp EXCEPT !.status = 500, !.ok = FALSE, !.error = "Internal Server Error"]

\* chat() left by an exception before the upstream call; the hit is recorded
ChatUnhandled(w, ip, payload) ==
    /\ Free(w)
    /\ ~RateLimited(ip)
    /\ Authorized(payload)
    /\ MessageOf(payload) # <<>>
    /\ ChatRaises(payload)
    /\ sinceHit' = [sinceHit EXCEPT ![ip] = 0]
    /\ req' = [req EXCEPT ![w] =
                 [Returned("chat", payload.token, UnhandledResp)
                    EXCEPT !.raw = payload.message,
                           !.message = MessageOf(payload)]]
    /\ UNCHANGED <<config, call, lock, history, db, pushes, log>>

\* chat() up to the call of mars_chat: fields, profile, memory, msgs
ChatBegin(w, ip, payload) ==
    /\ Free(w)
    /\ ~RateLimited(ip)
    /\ Authorized(payload)
    /\ MessageOf(payload) # <<>>
    /\ ~ChatRaises(payload)
    /\ ReadsTable(_get_session_id(payload, ip), UseMemory(payload)) => lock = None
    /\ LET message    == MessageOf(payload)
           session_id == _get_session_id(payload, ip)
           prof       == _resolve_profile(payload)
           use_memory == UseMemory(payload)
           turns      == MemoryTurns(prof.overrides, payload)
       IN  req' = [req EXCEPT ![w] =
                     [pc |-> "upstream",
                      route |-> "chat",
                      token |-> payload.token,
                      raw |-> payload.message,
                      message |-> message,
                      speaker |-> Prefix(payload.speaker, 64),
                      session_id |-> session_id,
                      memory_turns |-> turns,
                      use_memory |-> use_memory,
                      msgs |-> BuildMsgs(prof.system_text, message, session_id,
                                         turns, use_memory),
                      eff_params |-> EffParams(prof.overrides),
                      outcome |-> Outcome(None, <<>>),
                      alias |-> FALSE,
                      dq |-> NoDeque,
                      resp |-> NoResp]]
    /\ sinceHit' = [sinceHit EXCEPT ![ip] = 0]
    /\ UNCHANGED <<config, call, lock, history, db, pushes, log>>

\* the echo built without the speaker
FinalReply_NoSpeaker(r, res) ==
    _clip(_clean_artifacts(IF res.ok THEN res.reply ELSE ECHO_TAG \o r.message), CLIP_LIMIT)

\* reply after the echo fallback, _clean_artifacts and _clip
FinalReply(r, res) ==
    LET raw == IF res.ok THEN res.reply
               ELSE ECHO_TAG
                    \o (IF r.speaker # <<>> THEN r.speaker \o <<":", " ">> ELSE <<>>)
                    \o r.message
    IN  _clip(_clean_artifacts(raw), CLIP_LIMIT)

\* the error descriptor dropped from the response
ChatResp_NoError(r, res) ==
    [NoResp EXCEPT !.status = 200, !.ok = TRUE,
                   !.reply = FinalReply(r, res),
                   !.mode = IF res.ok THEN "mars" ELSE "echo",
                   !.session_id = r.session_id,
                   !.memory_turns = r.memory_turns,
                   !.used_memory = r.use_memory]

\* memory updated whatever the mode
StoresTurns_Always(res) == TRUE

\* memory is updated when mode == "mars"
StoresTurns(res) == res.ok

ChatResp(r, res) ==
    [NoResp EXCEPT !.status = 200, !.ok = TRUE,
                   !.reply = FinalReply(r, res),
                   !.mode = IF res.ok THEN "mars" ELSE "echo",
                   !.session_id = r.session_id,
                   !.mars_error = res.err,
                   !.memory_turns = r.memory_turns,
                   !.used_memory = r.use_memory]

\* chat() from the return of mars_chat to the response
ChatFinish(w, outcome) ==
    /\ req[w].pc = "upstream"
    /\ LET r     == req[w]
           res   == mars_chat(outcome)
           reply == FinalReply(r, res)
           sid   == r.session_id
       IN  /\ res.ok => pushes < MaxPushes
           /\ (StoresTurns(res) /\ PERSIST_ENABLED) => lock = None
           /\ IF StoresTurns(res)
              THEN /\ history' = [history EXCEPT ![sid] =
                                    PushDeque(sid, r.message, reply, r.memory_turns)]
                   /\ db' = [db EXCEPT ![sid] =
                               PushRows(sid, r.message, reply, r.memory_turns)]
                   /\ pushes' = pushes + 1
                   /\ log' = [log EXCEPT ![sid] =
                                LastN(@ \o <<Turn("user", r.message),
                                             Turn("assistant", reply)>>, LogKeep)]
              ELSE UNCHANGED <<history, db, pushes, log>>
           /\ req' = [req EXCEPT ![w] = [r EXCEPT !.pc = "done", !.outcome = outcome,
                                              !.resp = ChatResp(r, res)]]
    /\ UNCHANGED <<config, call, lock, sinceHit>>

(* ---------------------------- /memory/clear ---------------------------- *)

ClearPayloads ==
    { Payload(AUTH_TOKEN, <<>>, <<>>, sid, <<>>, JNone, JNone, JNone) :
        sid \in {IP1, <<" ">> \o S1} }

\* every body /memory/clear is sent here
ClearBodies == ClearPayloads \cup BadTokenPayloads \cup BlankPayloads

\* 401, or 400 when session_id is blank: nothing is touched
ClearRejected(w, payload) ==
    /\ Free(w)
    /\ ~Authorized(payload) \/ Strip(payload.session_id) = <<>>
    /\ req' = [req EXCEPT ![w] =
                 Returned("clear", payload.token,
                          IF ~Authorized(payload) THEN ErrorResp("unauthorized", 401)
                          ELSE ErrorResp("'session_id' is required", 400))]
    /\ UNCHANGED <<config, call, lock, history, db, sinceHit, pushes, log>>

\* the session's rows are deleted and its key is popped from _history
MemClear(w, payload) ==
    /\ Free(w)
    /\ Authorized(payload)
    /\ Strip(payload.session_id) # <<>>
    /\ PERSIST_ENABLED => lock = None
    /\ LET sid == Strip(payload.session_id)
       IN  /\ sid \in DOMAIN history
           /\ db' = [db EXCEPT ![sid] = <<>>]
           /\ history' = [history EXCEPT ![sid] = NoDeque]
           /\ log' = [log EXCEPT ![sid] = <<>>]
           /\ req' = [req EXCEPT ![w] =
                        [Returned("clear", payload.token,
                                  [NoResp EXCEPT !.status = 200, !.ok = TRUE,
                                   !.removed = _db_clear_session(db[sid])])
                           EXCEPT !.session_id = sid]]
    /\ UNCHANGED <<config, call, lock, sinceHit, pushes>>

(* ---------------------------- /memory/export --------------------------- *)

\* the items mem_export returns for sid
mem_export(sid, turns) ==
    IF PERSIST_ENABLED THEN _db_fetch_recent(db[sid], turns, MEMORY_MAX_CHARS)
    ELSE _get_history(sid).items

\* 401, or 400 when session_id is blank
ExportRejected(w, args) ==
    /\ Free(w)
    /\ ~Authorized(args) \/ Strip(args.session_id) = <<>>
    /\ req' = [req EXCEPT ![w] =
                 Returned("export", args.token,
                          IF ~Authorized(args) THEN ErrorResp("unauthorized", 401)
                          ELSE ErrorResp("'session_id' is required", 400))]
    /\ UNCHANGED <<config, call, lock, history, db, sinceHit, pushes, log>>

\* request.args.get("turns") or MEMORY_TURNS_DEFAULT, the value int() is
\* applied to; an empty text counts as absent
ExportTurnsValue(args) ==
    IF args.memory_turns.t = "none" \/ args.memory_turns = JStr(<<>>)
    THEN JNum(MEMORY_TURNS_DEFAULT)
    ELSE args.memory_turns

\* int() of the turns argument raises
ExportUnhandled(w, args) ==
    /\ Free(w)
    /\ Authorized(args)
    /\ Strip(args.session_id) # <<>>
    /\ ~IntOf(ExportTurnsValue(args)).ok
    /\ req' = [req EXCEPT ![w] =
                 [Returned("export", args.token, UnhandledResp)
                    EXCEPT !.session_id = Strip(args.session_id)]]
    /\ UNCHANGED <<config, call, lock, history, db, sinceHit, pushes, log>>

\* the turns of the stripped session id, from the table or from the cache
MemExport(w, args) ==
    /\ Free(w)
    /\ Authorized(args)
    /\ Strip(args.session_id) # <<>>
    /\ IntOf(ExportTurnsValue(args)).ok
    /\ PERSIST_ENABLED => lock = None
    /\ LET sid   == Strip(args.session_id)
           turns == IntOf(ExportTurnsValue(args)).n
       IN  /\ sid \in DOMAIN history
           /\ req' = [req EXCEPT ![w] =
                        [Returned("export", args.token,
                                  [NoResp EXCEPT !.status = 200, !.ok = TRUE,
                                   !.session_id = sid,
                                   !.history = mem_export(sid, turns)])
                           EXCEPT !.session_id = sid, !.memory_turns = turns]]
    /\ UNCHANGED <<config, call, lock, history, db, sinceHit, pushes, log>>

\* the response has been sent and the worker takes the next request
Respond(w) ==
    /\ req[w].pc = "done"
    /\ req' = [req EXCEPT ![w] = Idle]
    /\ UNCHANGED <<config, call, lock, history, db, sinceHit, pushes, log>>

(* ------------------------------ environment ---------------------------- *)

\* 1.25 s pass
Tick ==
    /\ \E ip \in IPs : sinceHit[ip] < RATE_WINDOW_TICKS
    /\ sinceHit' = [ip \in IPs |-> Min(sinceHit[ip] + 1, RATE_WINDOW_TICKS)]
    /\ UNCHANGED <<config, call, lock, history, db, req, pushes, log>>

\* time as the single worker sees it: the clock is read by _rate_limit only,
\* when a request is taken, so the time that passes while a request is
\* served is counted once the worker is free again
TickFree ==
    /\ Free(SyncWorker)
    /\ Tick

\* the process is restarted: module globals start afresh, the table stays
Restart ==
    /\ \E k \in SessionKeys : history[k] # NoDeque
    /\ history' = [k \in SessionKeys |-> NoDeque]
    /\ sinceHit' = [ip \in IPs |-> RATE_WINDOW_TICKS]
    /\ req' = [w \in Threads |-> Idle]
    /\ UNCHANGED <<config, call, lock, db, pushes, log>>

Next ==
    \/ \E ip \in IPs : ChatTooMany(SyncWorker, ip)
    \/ \E ip \in IPs, p \in ChatBodies : ChatUnauthorized(SyncWorker, ip, p)
    \/ \E ip \in IPs, p \in ChatBodies : ChatNoMessage(SyncWorker, ip, p)
    \/ \E ip \in IPs, p \in ChatBodies : ChatBegin(SyncWorker, ip, p)
    \/ \E o \in Outcomes : ChatFinish(SyncWorker, o)
    \/ \E p \in ClearBodies : ClearRejected(SyncWorker, p)
    \/ \E p \in ClearBodies : MemClear(SyncWorker, p)
    \/ Respond(SyncWorker)
    \/ TickFree
    \/ Restart

Spec == Init /\ [][Next]_vars

(* ------------------- _resolve_profile studied on its own --------------- *)

K_BARE == <<"b">>
K_FULL == <<"f">>
K_ODD == <<"o">>
SYS_EXAMPLE == <<"Y", "o", "u", " ", "a", "r", "e", " ", "S", "o", "j", "i", ".">>
SYS_FALLBACK == <<"F">>

\* a map with an object of one field and one parameter, a bare string, an
\* object with blank and missing fields and a parameter chat does not
\* know, and a value that is neither string nor object
PROFILES_VARIED ==
    [k \in {K_SOJI, K_BARE, K_FULL, K_ODD} |->
        CASE k = K_SOJI -> ProfileDict([f \in {"system"} |-> SYS_EXAMPLE],
                                       [q \in {"temperature"} |-> 5],
                                       EmptyMap)
          [] k = K_BARE -> ProfileStr(<<"B">>)
          [] k = K_FULL ->
               ProfileDict(
                 [f \in {"memory_hint", "style", "backstory", "system"} |->
                     CASE f = "system" -> <<" ", "S", " ">>
                       [] f = "backstory" -> <<" ", "\n">>
                       [] f = "style" -> <<"T">>
                       [] OTHER -> <<"H">>],
                 [q \in {"max_tokens", "top_p", "temperature"} |->
                     CASE q = "max_tokens" -> 100
                       [] q = "top_p" -> 9
                       [] OTHER -> 7],
                 [q \in {"turns"} |-> JNum(0)])
          [] OTHER -> ProfileOther]

ProfileMaps == {EmptyMap, PROFILES, PROFILES_VARIED}

ProfilePayloads ==
    { Payload(AUTH_TOKEN, MSG_A, <<>>, S1, pk, us, JNone, JNone) :
        pk \in {<<>>, K_SOJI, <<" ">> \o K_FULL \o <<" ">>, K_BARE, K_ODD, <<"x">>},
        us \in {JNone, JBool(FALSE), JBool(TRUE), JStr(<<"O", "f", "f">>),
                JStr(<<"o", "n">>)} }

\* any profile configuration, an empty store and no request
InitProfile ==
    /\ PERSIST_ENABLED = FALSE
    /\ marsReady = TRUE
    /\ PROFILE_MAP \in ProfileMaps
    /\ DEFAULT_PROFILE \in {<<>>, K_BARE, K_FULL, <<"z">>}
    /\ MARS_SYSTEM \in {<<>>, SYS_FALLBACK}
    /\ MEMORY_TURNS_DEFAULT = 2
    /\ history = [k \in SessionKeys |-> NoDeque]
    /\ db = [k \in SessionKeys |-> <<>>]
    /\ sinceHit = [ip \in IPs |-> RATE_WINDOW_TICKS]
    /\ req = [w \in Threads |-> Idle]
    /\ pushes = 0
    /\ log = [k \in SessionKeys |-> <<>>]
    /\ call = NoCall
    /\ lock = None

\* system_text, overrides = _resolve_profile(payload)
Resolve(payload) ==
    /\ call.pc = "none"
    /\ LET prof == _resolve_profile(payload)
       IN  call' = [NoCall EXCEPT !.pc = "resolved", !.payload = payload,
                                  !.system_text = prof.system_text,
                                  !.overrides = prof.overrides]
    /\ UNCHANGED <<config, lock, history, db, sinceHit, req, pushes, log>>

\* what chat builds from the result: msgs and eff_params
Assemble ==
    /\ call.pc = "resolved"
    /\ LET payload == call.payload
       IN  call' = [call EXCEPT
                      !.pc = "assembled",
                      !.msgs = BuildMsgs(call.system_text, MessageOf(payload),
                                         _get_session_id(payload, IP1),
                                         MemoryTurns(call.overrides, payload),
                                         UseMemory(payload)),
                      !.eff_params = EffParams(call.overrides)]
    /\ UNCHANGED <<config, lock, history, db, sinceHit, req, pushes, log>>

\* the call under study is over
Forget ==
    /\ call.pc = "assembled"
    /\ call' = NoCall
    /\ UNCHANGED <<config, lock, history, db, sinceHit, req, pushes, log>>

NextProfile ==
    \/ \E p \in ProfilePayloads : Resolve(p)
    \/ Assemble
    \/ Forget

SpecProfile == InitProfile /\ [][NextProfile]_vars

(* ------------------ one session used with one turn count --------------- *)

\* chats of session S1 that leave the turn count to the server default
TurnsPayloads ==
    { Payload(AUTH_TOKEN, m, <<>>, S1, <<>>, JNone, JNone, JNone) :
        m \in {MSG_A, MSG_B} }

\* any default turn count, a working upstream, and nothing stored
InitTurns ==
    /\ PERSIST_ENABLED \in BOOLEAN
    /\ marsReady = TRUE
    /\ PROFILE_MAP = EmptyMap
    /\ DEFAULT_PROFILE = <<>>
    /\ MARS_SYSTEM \in {<<>>, SYS_FALLBACK}
    /\ MEMORY_TURNS_DEFAULT \in 0..2
    /\ history = [k \in SessionKeys |-> NoDeque]
    /\ db = [k \in SessionKeys |-> <<>>]
    /\ sinceHit = [ip \in IPs |-> RATE_WINDOW_TICKS]
    /\ req = [w \in Threads |-> Idle]
    /\ pushes = 0
    /\ log = [k \in SessionKeys |-> <<>>]
    /\ call = NoCall
    /\ lock = None

NextTurns ==
    \/ \E ip \in IPs, p \in TurnsPayloads : ChatBegin(SyncWorker, ip, p)
    \/ \E o \in Outcomes : ChatFinish(SyncWorker, o)
    \/ Respond(SyncWorker)
    \/ Tick

SpecTurns == InitTurns /\ [][NextTurns]_vars

(* --------------- long messages and messages with directives ------------ *)

MSG_STICKY ==
    <<"[", "[", "s", "t", "a", "t", "e", ":", " ", "k", "=", "v", "]", "]",
      " ", "h", "i">>

\* a message longer than any configured budget
MSG_LONG == [i \in 1..2001 |-> "x"]

TextPayloads ==
    { Payload(AUTH_TOKEN, m, <<>>, S1, pk, JNone, JNone, JNone) :
        m \in {MSG_A, MSG_STICKY, MSG_LONG},
        pk \in {<<>>, K_SOJI} }

\* an upstream that answers
Replies == { Outcome("json200", REPLY_R) }

InitText ==
    /\ PERSIST_ENABLED \in BOOLEAN
    /\ marsReady = TRUE
    /\ PROFILE_MAP = PROFILES
    /\ DEFAULT_PROFILE = <<>>
    /\ MARS_SYSTEM = <<>>
    /\ MEMORY_TURNS_DEFAULT = 2
    /\ history = [k \in SessionKeys |-> NoDeque]
    /\ db = [k \in SessionKeys |-> <<>>]
    /\ sinceHit = [ip \in IPs |-> RATE_WINDOW_TICKS]
    /\ req = [w \in Threads |-> Idle]
    /\ pushes = 0
    /\ log = [k \in SessionKeys |-> <<>>]
    /\ call = NoCall
    /\ lock = None

NextText ==
    \/ \E ip \in IPs, p \in TextPayloads : ChatBegin(SyncWorker, ip, p)
    \/ \E o \in Replies : ChatFinish(SyncWorker, o)
    \/ Respond(SyncWorker)
    \/ Tick

SpecText == InitText /\ [][NextText]_vars

(* ------------- malformed configuration and request fields -------------- *)

\* a map whose profiles give the turn count as a text that is not a number,
\* as a text that is one, and a profile that is neither string nor object
PROFILES_MALFORMED ==
    [k \in {K_SOJI, K_FULL, K_ODD} |->
        CASE k = K_SOJI -> ProfileDict([f \in {"system"} |-> SYS_SOJI],
                                       EmptyMap,
                                       [q \in {"turns"} |-> JStr(<<"m", "a", "n", "y">>)])
          [] k = K_FULL -> ProfileDict([f \in {"system"} |-> SYS_SOJI],
                                       EmptyMap,
                                       [q \in {"turns"} |-> JStr(<<" ", "1">>)])
          [] OTHER -> ProfileOther]

\* chats of session S1 whose memory_turns is absent, a number, a boolean, a
\* text that is a number and a text that is not
MalformedPayloads ==
    { Payload(AUTH_TOKEN, MSG_A, <<>>, S1, pk, JNone, JNone, mt) :
        pk \in {<<>>, K_SOJI, K_FULL, K_ODD},
        mt \in {JNone, JNum(1), JBool(TRUE), JStr(<<"1">>), JStr(<<"x">>)} }

\* every body /chat is sent in this study
MalformedBodies == MalformedPayloads \cup BadTokenPayloads \cup BlankPayloads

\* a profile map that is not an object is loaded as the empty map
InitMalformed ==
    /\ PERSIST_ENABLED \in BOOLEAN
    /\ marsReady \in BOOLEAN
    /\ PROFILE_MAP \in {EmptyMap, PROFILES, PROFILES_MALFORMED}
    /\ DEFAULT_PROFILE = <<>>
    /\ MARS_SYSTEM = <<>>
    /\ MEMORY_TURNS_DEFAULT = 2
    /\ history = [k \in SessionKeys |-> NoDeque]
    /\ db = [k \in SessionKeys |-> <<>>]
    /\ sinceHit = [ip \in IPs |-> RATE_WINDOW_TICKS]
    /\ req = [w \in Threads |-> Idle]
    /\ pushes = 0
    /\ log = [k \in SessionKeys |-> <<>>]
    /\ call = NoCall
    /\ lock = None

NextMalformed ==
    \/ \E ip \in IPs : ChatTooMany(SyncWorker, ip)
    \/ \E ip \in IPs, p \in MalformedBodies : ChatUnauthorized(SyncWorker, ip, p)
    \/ \E ip \in IPs, p \in MalformedBodies : ChatNoMessage(SyncWorker, ip, p)
    \/ \E ip \in IPs, p \in MalformedBodies : ChatUnhandled(SyncWorker, ip, p)
    \/ \E ip \in IPs, p \in MalformedBodies : ChatBegin(SyncWorker, ip, p)
    \/ \E o \in Outcomes : ChatFinish(SyncWorker, o)
    \/ Respond(SyncWorker)
    \/ TickFree

SpecMalformed == InitMalformed /\ [][NextMalformed]_vars

(* --------------- turn counts given by profile and request -------------- *)

\* chats of session S1 that name no profile, one without a turn count and
\* one with, that switch the system prompt off, and that ask for no turn
\* count, for none and for one
OverridePayloads ==
    { Payload(AUTH_TOKEN, MSG_A, <<>>, S1, pk, us, JNone, mt) :
        pk \in {<<>>, K_SOJI, K_FULL},
        us \in {JNone, JBool(FALSE)},
        mt \in {JNone, JNum(0), JNum(1)} }

InitOverride ==
    /\ PERSIST_ENABLED \in BOOLEAN
    /\ marsReady = TRUE
    /\ PROFILE_MAP \in {PROFILES, PROFILES_VARIED}
    /\ DEFAULT_PROFILE \in {<<>>, K_FULL}
    /\ MARS_SYSTEM = <<>>
    /\ MEMORY_TURNS_DEFAULT = 2
    /\ history = [k \in SessionKeys |-> NoDeque]
    /\ db = [k \in SessionKeys |-> <<>>]
    /\ sinceHit = [ip \in IPs |-> RATE_WINDOW_TICKS]
    /\ req = [w \in Threads |-> Idle]
    /\ pushes = 0
    /\ log = [k \in SessionKeys |-> <<>>]
    /\ call = NoCall
    /\ lock = None

\* the body of the next request has arrived: payload = request.get_json()
Receive(w, payload) ==
    /\ Free(w)
    /\ call' = [NoCall EXCEPT !.pc = "received", !.payload = payload]
    /\ UNCHANGED <<config, lock, history, db, sinceHit, req, pushes, log>>

\* chat serves the body that has arrived
ChatReceived(w, ip) ==
    /\ call.pc = "received"
    /\ ChatBegin(w, ip, call.payload)

NextOverride ==
    \/ \E p \in OverridePayloads : Receive(SyncWorker, p)
    \/ \E ip \in IPs : ChatReceived(SyncWorker, ip)
    \/ \E o \in Replies \cup {Outcome("status", <<>>)} : ChatFinish(SyncWorker, o)
    \/ Respond(SyncWorker)
    \/ TickFree

SpecOverride == InitOverride /\ [][NextOverride]_vars

(* ------------------- sessions named by long identifiers ---------------- *)

\* a session id one character longer than the cut of _get_session_id
SID_LONG == [i \in 1..129 |-> "k"]

\* every key the identifiers of this study can lead to
LongKeys == {S1, SID_LONG, Prefix(SID_LONG, 128)}

\* chats of a short and of a long session id
LongChatPayloads ==
    { Payload(AUTH_TOKEN, MSG_A, <<>>, sid, <<>>, JNone, JNone, JNone) :
        sid \in {S1, SID_LONG} }

\* clears of the same ids, a blank one and one with a wrong token
LongClearBodies ==
    { Payload(tok, <<>>, <<>>, sid, <<>>, JNone, JNone, JNone) :
        tok \in {AUTH_TOKEN, "bad"}, sid \in {S1, SID_LONG, <<" ">>} }

\* exports of the same ids, with the turns argument absent, a number and
\* not a number
LongExportArgs ==
    { Payload(tok, <<>>, <<>>, sid, <<>>, JNone, JNone, t) :
        tok \in {AUTH_TOKEN, "bad"}, sid \in {S1, SID_LONG, <<" ">>},
        t \in {JNone, JStr(<<"1">>), JStr(<<"x">>)} }

InitLong ==
    /\ PERSIST_ENABLED \in BOOLEAN
    /\ marsReady = TRUE
    /\ PROFILE_MAP = EmptyMap
    /\ DEFAULT_PROFILE = <<>>
    /\ MARS_SYSTEM = <<>>
    /\ MEMORY_TURNS_DEFAULT = 2
    /\ history = [k \in LongKeys |-> NoDeque]
    /\ db = [k \in LongKeys |-> <<>>]
    /\ sinceHit = [ip \in IPs |-> RATE_WINDOW_TICKS]
    /\ req = [w \in Threads |-> Idle]
    /\ pushes = 0
    /\ log = [k \in LongKeys |-> <<>>]
    /\ call = NoCall
    /\ lock = None

NextLong ==
    \/ \E ip \in IPs, p \in LongChatPayloads : ChatBegin(SyncWorker, ip, p)
    \/ \E o \in Replies \cup {Outcome("status", <<>>)} : ChatFinish(SyncWorker, o)
    \/ \E p \in LongClearBodies : ClearRejected(SyncWorker, p)
    \/ \E p \in LongClearBodies : MemClear(SyncWorker, p)
    \/ \E a \in LongExportArgs : ExportRejected(SyncWorker, a)
    \/ \E a \in LongExportArgs : ExportUnhandled(SyncWorker, a)
    \/ \E a \in LongExportArgs : MemExport(SyncWorker, a)
    \/ Respond(SyncWorker)
    \/ TickFree

SpecLong == InitLong /\ [][NextLong]_vars

(* ------------------ chat served by two threads at once ----------------- *)
(* app.run serves each request in a thread of its own. _push_history runs  *)
(* without a lock, so a thread switch can fall between any two of its      *)
(* statements; each statement below is one step. The three table           *)
(* operations take _db_lock one after the other: a worker first takes the  *)
(* lock, then runs the block and releases it.                              *)

MaxThreadPushes == 2    \* _push_history calls in one behaviour of the threads

\* the chats worker w serves: session S1, the default turn count or one turn
ThreadPayloads(w) ==
    IF w = SyncWorker
    THEN { Payload(AUTH_TOKEN, MSG_A, <<>>, S1, <<>>, JNone, JNone, mt) :
             mt \in {JNone, JNum(1)} }
    ELSE { Payload(AUTH_TOKEN, MSG_B, <<>>, S1, <<>>, JNone, JNone, JNone) }

REPLY_Q == <<"q">>

\* what upstream answers to the request of worker w
RepliesTo(w) ==
    IF w = SyncWorker THEN { Outcome("json200", REPLY_R), Outcome("status", <<>>) }
    ELSE { Outcome("json200", REPLY_Q) }

InitThreads ==
    /\ PERSIST_ENABLED \in BOOLEAN
    /\ marsReady = TRUE
    /\ PROFILE_MAP = EmptyMap
    /\ DEFAULT_PROFILE = <<>>
    /\ MARS_SYSTEM = <<>>
    /\ MEMORY_TURNS_DEFAULT = 2
    /\ history = [k \in SessionKeys |-> NoDeque]
    /\ db = [k \in SessionKeys |-> <<>>]
    /\ sinceHit = [ip \in IPs |-> RATE_WINDOW_TICKS]
    /\ req = [w \in Threads |-> Idle]
    /\ pushes = 0
    /\ log = [k \in SessionKeys |-> <<>>]
    /\ call = NoCall
    /\ lock = None

\* the deque the local dq of worker w names
Cur(w) == IF req[w].alias THEN history[req[w].session_id] ELSE req[w].dq

\* mars_chat has returned: the echo answer, or on to _push_history
ChatReturn(w, outcome) ==
    /\ req[w].pc = "upstream"
    /\ LET r   == req[w]
           res == mars_chat(outcome)
       IN  /\ res.ok => pushes < MaxThreadPushes
           /\ IF StoresTurns(res)
              THEN /\ req' = [req EXCEPT ![w] = [r EXCEPT !.pc = "push_get",
                                                         !.outcome = outcome]]
                   /\ pushes' = pushes + 1
              ELSE /\ req' = [req EXCEPT ![w] = [r EXCEPT !.pc = "done",
                                                         !.outcome = outcome,
                                                         !.resp = ChatResp(r, res)]]
                   /\ UNCHANGED pushes
    /\ UNCHANGED <<config, call, lock, history, db, sinceHit, log>>

\* dq = _get_history(sid): the session's deque, or a new one of its own
PushGet(w) ==
    /\ req[w].pc = "push_get"
    /\ LET sid     == req[w].session_id
           present == history[sid] # NoDeque /\ history[sid].items # <<>>
       IN  req' = [req EXCEPT ![w].pc = "push_resize",
                              ![w].alias = present,
                              ![w].dq = IF present THEN NoDeque
                                        ELSE Deque(<<>>, 2 * MEMORY_TURNS_DEFAULT)]
    /\ UNCHANGED <<config, call, lock, history, db, sinceHit, pushes, log>>

\* if dq.maxlen != target_maxlen: dq = deque(dq, maxlen=target_maxlen)
PushResize(w) ==
    /\ req[w].pc = "push_resize"
    /\ LET target == TargetMaxlen(req[w].memory_turns)
       IN  IF Cur(w).maxlen # target
           THEN req' = [req EXCEPT ![w].pc = "push_user",
                                   ![w].alias = FALSE,
                                   ![w].dq = Deque(Cur(w).items, target)]
           ELSE req' = [req EXCEPT ![w].pc = "push_user"]
    /\ UNCHANGED <<config, call, lock, history, db, sinceHit, pushes, log>>

\* dq.append(turn) by worker w, on the session's object or on its own
LocalAppend(w, turn, pc) ==
    IF req[w].alias
    THEN /\ history' = [history EXCEPT ![req[w].session_id] = DequeAppend(@, turn)]
         /\ req' = [req EXCEPT ![w].pc = pc]
    ELSE /\ req' = [req EXCEPT ![w].pc = pc, ![w].dq = DequeAppend(@, turn)]
         /\ UNCHANGED history

\* dq.append({"role": "user", ...})
PushUser(w) ==
    /\ req[w].pc = "push_user"
    /\ LocalAppend(w, Turn("user", req[w].message), "push_asst")
    /\ UNCHANGED <<config, call, lock, db, sinceHit, pushes, log>>

\* dq.append({"role": "assistant", ...})
PushAsst(w) ==
    /\ req[w].pc = "push_asst"
    /\ LocalAppend(w, Turn("assistant", FinalReply(req[w], mars_chat(req[w].outcome))),
                   "push_set")
    /\ UNCHANGED <<config, call, lock, db, sinceHit, pushes, log>>

\* _set_history(sid, dq): a worker whose local named the object that is
\* replaced keeps that object for itself
PushSet(w) ==
    /\ req[w].pc = "push_set"
    /\ LET sid == req[w].session_id
           nxt == IF PERSIST_ENABLED THEN "db_user" ELSE "respond"
       IN  IF req[w].alias
           THEN /\ req' = [req EXCEPT ![w].pc = nxt]
                /\ UNCHANGED history
           ELSE /\ history' = [history EXCEPT ![sid] = req[w].dq]
                /\ req' = [v \in Threads |->
                             IF v = w
                             THEN [req[v] EXCEPT !.pc = nxt, !.alias = TRUE,
                                                 !.dq = NoDeque]
                             ELSE IF req[v].alias /\ req[v].session_id = sid
                             THEN [req[v] EXCEPT !.alias = FALSE, !.dq = history[sid]]
                             ELSE req[v]]
    /\ UNCHANGED <<config, call, lock, db, sinceHit, pushes, log>>

\* the pcs at which a worker is at a table operation of _push_history
DB_PCS == {"db_user", "db_asst", "db_trim"}

\* with _db_lock: the worker waits until the lock is free and takes it
DbLock(w) ==
    /\ req[w].pc \in DB_PCS
    /\ lock = None
    /\ lock' = w
    /\ UNCHANGED <<config, call, history, db, sinceHit, req, pushes, log>>

\* the block is left with the lock still held
Unlock_StillHeld(w) == w

\* the end of a "with _db_lock" block: the lock is free again
Unlock(w) == None

\* _db_append_msg(sid, "user", user_msg)
DbUser(w) ==
    /\ req[w].pc = "db_user"
    /\ lock = w
    /\ lock' = Unlock(w)
    /\ db' = [db EXCEPT ![req[w].session_id] =
                _db_append_msg(@, "user", req[w].message)]
    /\ req' = [req EXCEPT ![w].pc = "db_asst"]
    /\ UNCHANGED <<config, call, history, sinceHit, pushes, log>>

\* _db_append_msg(sid, "assistant", assistant_msg)
DbAsst(w) ==
    /\ req[w].pc = "db_asst"
    /\ lock = w
    /\ lock' = Unlock(w)
    /\ db' = [db EXCEPT ![req[w].session_id] =
                _db_append_msg(@, "assistant",
                               FinalReply(req[w], mars_chat(req[w].outcome)))]
    /\ req' = [req EXCEPT ![w].pc = "db_trim"]
    /\ UNCHANGED <<config, call, history, sinceHit, pushes, log>>

\* _db_trim_to_limits(sid, turns, MEMORY_MAX_CHARS)
DbTrim(w) ==
    /\ req[w].pc = "db_trim"
    /\ lock = w
    /\ lock' = Unlock(w)
    /\ db' = [db EXCEPT ![req[w].session_id] =
                _db_trim_to_limits(@, req[w].memory_turns, MEMORY_MAX_CHARS)]
    /\ req' = [req EXCEPT ![w].pc = "respond"]
    /\ UNCHANGED <<config, call, history, sinceHit, pushes, log>>

\* the response of a chat that stored its turns
ChatAnswer(w) ==
    /\ req[w].pc = "respond"
    /\ LET r == req[w]
       IN  /\ req' = [req EXCEPT ![w] =
                        [r EXCEPT !.pc = "done", !.alias = FALSE, !.dq = NoDeque,
                                  !.resp = ChatResp(r, mars_chat(r.outcome))]]
           /\ log' = [log EXCEPT ![r.session_id] =
                        LastN(@ \o <<Turn("user", r.message),
                                     Turn("assistant",
                                          FinalReply(r, mars_chat(r.outcome)))>>,
                             LogKeep)]
    /\ UNCHANGED <<config, call, lock, history, db, sinceHit, pushes>>

NextThreads ==
    \E w \in Threads :
        \/ \E ip \in IPs, p \in ThreadPayloads(w) : ChatBegin(w, ip, p)
        \/ \E o \in RepliesTo(w) : ChatReturn(w, o)
        \/ PushGet(w)
        \/ PushResize(w)
        \/ PushUser(w)
        \/ PushAsst(w)
        \/ PushSet(w)
        \/ DbLock(w)
        \/ DbUser(w)
        \/ DbAsst(w)
        \/ DbTrim(w)
        \/ ChatAnswer(w)
        \/ Respond(w)
        \/ Tick

SpecThreads == InitThreads /\ [][NextThreads]_vars

(* ============================== properties ============================= *)

\* the upstream call failed: missing configuration, exception or timeout,
\* non-200 status or non-JSON body, or an empty body
UpstreamFailed(o) == ~marsReady \/ o.kind # "json200" \/ o.reply = <<>>

\* worker w has just passed from the upstream call to its response
Finishes(w) == req[w].pc = "upstream" /\ req'[w].pc = "done"

Contains(seq, x) == \E i \in 1..Len(seq) : seq[i] = x

IsSuffix(a, b) == Len(a) <= Len(b) /\ a = LastN(b, Len(a))

OfRole(seq, role) == SelectSeq(seq, LAMBDA m : m.role = role)

C2_NoAssistantTurnOnFailure ==
    [][\A w \in Threads :
          (Finishes(w) /\ UpstreamFailed(req'[w].outcome)) =>
              \A k \in SessionKeys :
                  /\ OfRole(history'[k].items, "assistant") = OfRole(history[k].items, "assistant")
                  /\ OfRole(db'[k], "assistant") = OfRole(db[k], "assistant")
                  /\ \A i \in 1..Len(history'[k].items) :
                        history'[k].items[i].role = "assistant" =>
                            Prefix(history'[k].items[i].content, Len(ECHO_TAG)) # ECHO_TAG
                  /\ \A i \in 1..Len(db'[k]) :
                        db'[k][i].role = "assistant" =>
                            Prefix(db'[k][i].content, Len(ECHO_TAG)) # ECHO_TAG]_vars

\* an upstream call that returned an empty body was answered with an echo
\* while the session holds earlier turns in cache and table
C2_Witness ==
    \E w \in Threads :
        /\ req[w].pc = "done"
        /\ marsReady /\ PERSIST_ENABLED
        /\ req[w].outcome = Outcome("json200", <<>>)
        /\ req[w].resp.mode = "echo"
        /\ history[req[w].session_id].items # <<>>
        /\ db[req[w].session_id] # <<>>

\* C3 as written: after an upstream failure the response is a failure
\* (not ok) that carries a detail string
C3_FailureResponse ==
    \A w \in Threads :
        (req[w].pc = "done" /\ req[w].outcome.kind # None /\ UpstreamFailed(req[w].outcome)) =>
            (~req[w].resp.ok /\ req[w].resp.mars_error # None)

\* C3 amended: after an upstream failure the response is an ok (HTTP 200)
\* response in mode "echo" whose meta carries the error descriptor; a caller
\* tells it from a successful reply, which has mode "mars" and no descriptor
C3_EchoResponseCarriesError ==
    \A w \in Threads :
        (req[w].pc = "done" /\ req[w].outcome.kind # None) =>
            IF UpstreamFailed(req[w].outcome)
            THEN /\ req[w].resp.ok /\ req[w].resp.status = 200
                 /\ req[w].resp.mode = "echo"
                 /\ req[w].resp.mars_error # None
            ELSE /\ req[w].resp.ok /\ req[w].resp.status = 200
                 /\ req[w].resp.mode = "mars"
                 /\ req[w].resp.mars_error = None

\* a non-200 upstream status has been answered
C3_Witness ==
    \E w \in Threads :
        /\ req[w].pc = "done" /\ marsReady
        /\ req[w].outcome.kind = "status"
        /\ req[w].resp.mars_error = "upstream_500:no-body"

\* the error descriptors mars_chat produces
ERROR_DESCRIPTORS ==
    {"missing_mars_env", "empty_json_body", "upstream_500:no-body", "exception:Timeout"}

\* "[ECHO] " + (speaker + ": " if speaker) + message, sanitised and clipped
EchoOf(speaker, message) ==
    _clip(_clean_artifacts(
              ECHO_TAG \o (IF speaker # <<>> THEN speaker \o <<":", " ">> ELSE <<>>)
                       \o message), CLIP_LIMIT)

\* C4: a chat whose upstream call failed is answered with the echo of the
\* speaker and message, in mode "echo", with the error descriptor attached;
\* mode "mars" appears only when upstream returned a non-empty reply text
C4_EchoFallback ==
    \A w \in Threads :
        (req[w].pc = "done" /\ req[w].outcome.kind # None) =>
            /\ UpstreamFailed(req[w].outcome) =>
                  /\ req[w].resp.ok
                  /\ req[w].resp.reply = EchoOf(req[w].speaker, req[w].message)
                  /\ req[w].resp.mode = "echo"
                  /\ req[w].resp.mars_error \in ERROR_DESCRIPTORS
            /\ req[w].resp.mode = "mars" =>
                  (marsReady /\ req[w].outcome.kind = "json200" /\ req[w].outcome.reply # <<>>)

\* an echo that names the speaker was returned with upstream not configured
C4_Witness ==
    \E w \in Threads :
        /\ req[w].pc = "done" /\ ~marsReady
        /\ req[w].speaker = <<"S">>
        /\ req[w].resp.reply = ECHO_TAG \o <<"S", ":", " ">> \o MSG_A
        /\ req[w].resp.mars_error = "missing_mars_env"

\* the request's own messages at the end of msgs: [system?] + [user]
OwnCount(msgs) ==
    IF Len(msgs) >= 2 /\ msgs[Len(msgs) - 1].role = "system" THEN 2 ELSE 1

\* the history turns _apply_memory put into msgs
Included(msgs) == SubSeq(msgs, 1, Len(msgs) - OwnCount(msgs))

\* worker w is inside the upstream call, with msgs assembled
Calling(w) == req[w].pc = "upstream"

\* C5 as written: in the assembled list a system message comes first, the
\* new user message is last, and everything between is history
C5_SystemMessageFirst ==
    \A w \in Threads :
        Calling(w) =>
            LET msgs == req[w].msgs
            IN  /\ msgs[Len(msgs)] = Message("user", req[w].message)
                /\ (\E i \in 1..Len(msgs) : msgs[i].role = "system") =>
                      /\ msgs[1].role = "system"
                      /\ \A i \in 2..Len(msgs) : msgs[i].role # "system"

\* the count-bounded window a history read with turn-count N works on: the
\* last 2N turns of the cache
Window(sid, turns) == LastN(_get_history(sid).items, Max(0, 2 * turns))

\* C6 as written: the included turns are a most-recent suffix of the
\* count-bounded window, within the budget, and the newest stored turn is
\* included whenever it fits
C6_BudgetKeepsNewest ==
    \A w \in Threads :
        (Calling(w) /\ req[w].use_memory /\ history[req[w].session_id] # NoDeque) =>
            LET win == Window(req[w].session_id, req[w].memory_turns)
                inc == Included(req[w].msgs)
            IN  /\ IsSuffix(inc, win)
                /\ TotalChars(inc) <= MEMORY_MAX_CHARS
                /\ (win # <<>> /\ Len(win[Len(win)].content) <= MEMORY_MAX_CHARS) =>
                       (inc # <<>> /\ inc[Len(inc)] = win[Len(win)])

\* C7 as written: the included history has at most 2N turns and they are
\* the most recently appended turns of the session, in their original order
C7_MostRecentTurns ==
    \A w \in Threads :
        (Calling(w) /\ req[w].use_memory) =>
            LET inc == Included(req[w].msgs)
            IN  /\ Len(inc) <= 2 * req[w].memory_turns
                /\ IsSuffix(inc, log[req[w].session_id])

C9_ColdStartWarmsCache ==
    \A w \in Threads :
        (/\ Calling(w) /\ req[w].use_memory /\ PERSIST_ENABLED
         /\ _db_fetch_recent(db[req[w].session_id], req[w].memory_turns,
                             MEMORY_MAX_CHARS) # <<>>) =>
            history[req[w].session_id].items # <<>>

\* C10 as written, with the count bound read as 2*max(1, N): after an
\* append the session's rows are at most that many, fit the char budget and
\* are a most-recent suffix of the rows written for the session
C10_RowsAreRecentSuffix ==
    \A w \in Threads :
        (req[w].pc = "done" /\ req[w].resp.mode = "mars" /\ PERSIST_ENABLED) =>
            LET rows == db[req[w].session_id]
            IN  /\ Len(rows) <= 2 * Max(1, req[w].memory_turns)
                /\ TotalChars(rows) <= MEMORY_MAX_CHARS
                /\ IsSuffix(rows, log[req[w].session_id])


\* worker w has just taken a request of the route and left it in r
Takes(w, route) ==
    req[w].pc = "idle" /\ req'[w].pc # "idle" /\ req'[w].route = route

\* C11: a clear of a session removes every turn of it from the cache and from
\* the table and answers with the number of rows deleted (0 when persistence
\* is off); what chat and export read for the session right after is empty
C11_ClearRemovesEveryTurn ==
    [][\A w \in Threads, sid \in SessionKeys :
          (/\ Takes(w, "clear")
           /\ req'[w].token = AUTH_TOKEN
           /\ req'[w].session_id = sid) =>
             /\ req'[w].resp.status = 200 /\ req'[w].resp.ok
             /\ history'[sid].items = <<>>
             /\ db'[sid] = <<>>
             /\ req'[w].resp.removed = (IF PERSIST_ENABLED THEN Len(db[sid]) ELSE 0)
             /\ \A n \in 0..MEMORY_TURNS_DEFAULT :
                   /\ MemoryWindow(sid, n)' = <<>>
                   /\ mem_export(sid, n)' = <<>>]_vars

\* a clear has deleted rows of a session whose cache held turns
C11_Witness ==
    \E w \in Threads :
        /\ req[w].pc = "done" /\ req[w].route = "clear"
        /\ req[w].resp.status = 200
        /\ req[w].resp.removed >= 2
        /\ history[req[w].session_id] = NoDeque
        /\ log[req[w].session_id] = <<>>
        /\ pushes > 0

\* C12: a /chat or /memory/clear request whose token does not match is
\* answered 401 "unauthorized" and leaves every session's cache and rows as
\* they were
C12_UnauthorizedTouchesNothing ==
    [][\A w \in Threads :
          (/\ Takes(w, "chat") \/ Takes(w, "clear")
           /\ req'[w].token \notin {AUTH_TOKEN, "unread"}) =>
             /\ req'[w].pc = "done"
             /\ req'[w].resp.status = 401
             /\ req'[w].resp.error = "unauthorized"
             /\ ~req'[w].resp.ok
             /\ history' = history
             /\ db' = db]_vars

\* a request with a wrong token has been refused while a session had history
C12_Witness ==
    \E w \in Threads :
        /\ req[w].pc = "done" /\ req[w].token = "bad"
        /\ req[w].resp.status = 401
        /\ \E k \in SessionKeys : history[k].items # <<>> /\ db[k] # <<>>

\* C13: an authorized /chat request whose message is blank after trimming is
\* answered 400 with the input error, which is not the unauthorized one, with
\* no message list built, no upstream call and every session's cache and rows
\* as they were
C13_BlankMessageRejected ==
    [][\A w \in Threads :
          (/\ Takes(w, "chat")
           /\ req'[w].token = AUTH_TOKEN
           /\ Strip(req'[w].message) = <<>>) =>
             /\ req'[w].pc = "done"
             /\ req'[w].resp.status = 400
             /\ req'[w].resp.error = "'message' is required"
             /\ req'[w].resp.error # "unauthorized"
             /\ req'[w].msgs = <<>>
             /\ req'[w].eff_params = EmptyMap
             /\ history' = history
             /\ db' = db]_vars

\* an authorized chat with a blank message has been refused while a session
\* had history
C13_Witness ==
    \E w \in Threads :
        /\ req[w].pc = "done" /\ req[w].route = "chat"
        /\ req[w].token = AUTH_TOKEN
        /\ req[w].resp.status = 400
        /\ \E k \in SessionKeys : history[k].items # <<>>


\* the body of the call under study asks for the system prompt to be left out
SystemOff == call.payload.use_system \in {JBool(FALSE), JStr(<<"O", "f", "f">>)}

\* k is the key of a profile of the map
Known(k) == k # <<>> /\ k \in DOMAIN PROFILE_MAP

\* the key the call under study asks for
RequestedKey == Strip(call.payload.profile)

NoSystemMessage(msgs) == \A i \in 1..Len(msgs) : msgs[i].role # "system"

\* C14: with use_system false the resolution gives the empty system text and
\* no overrides whatever the profile map, the default profile, the fallback
\* persona and the requested key are, and the message list built from it has
\* no system message
C14_KillSwitchEmptiesProfile ==
    (call.pc # "none" /\ SystemOff) =>
        /\ call.system_text = <<>>
        /\ call.overrides = EmptyMap
        /\ call.pc = "assembled" =>
              /\ NoSystemMessage(call.msgs)
              /\ call.msgs = <<Message("user", MSG_A)>>

\* the switch was used on a request naming a known profile, with a default
\* profile and a fallback persona configured
C14_Witness ==
    /\ call.pc = "assembled"
    /\ call.payload.use_system = JBool(FALSE)
    /\ Known(RequestedKey)
    /\ Known(DEFAULT_PROFILE)
    /\ MARS_SYSTEM # <<>>

\* C15: with the switch off the resolution takes the requested profile when
\* its key is known, else the default profile when it is configured and
\* known, else the fallback persona when there is one, else nothing; an
\* unknown key is never an error, it falls through to the next case
C15_ProfileSelectionOrder ==
    (call.pc # "none" /\ ~SystemOff) =>
        LET got == Resolved(call.system_text, call.overrides)
        IN  /\ Known(RequestedKey) =>
                  got = ComposeProfile(PROFILE_MAP[RequestedKey])
            /\ (~Known(RequestedKey) /\ Known(DEFAULT_PROFILE)) =>
                  got = ComposeProfile(PROFILE_MAP[DEFAULT_PROFILE])
            /\ (~Known(RequestedKey) /\ ~Known(DEFAULT_PROFILE)) =>
                  got = Resolved(MARS_SYSTEM, EmptyMap)
            /\ (Known(RequestedKey) /\ PROFILE_MAP = PROFILES_VARIED
                  /\ RequestedKey = K_SOJI) => call.system_text = SYS_EXAMPLE
            /\ (~Known(RequestedKey) /\ PROFILE_MAP = PROFILES_VARIED
                  /\ DEFAULT_PROFILE = K_BARE) => call.system_text = <<"B">>
            /\ (PROFILE_MAP = EmptyMap /\ MARS_SYSTEM = <<>>) =>
                  call.system_text = <<>>

\* an unknown key fell through to a known default profile although a
\* fallback persona was configured
C15_Witness ==
    /\ call.pc = "resolved"
    /\ ~SystemOff
    /\ RequestedKey = <<"x">>
    /\ DEFAULT_PROFILE = K_BARE /\ Known(DEFAULT_PROFILE)
    /\ MARS_SYSTEM = SYS_FALLBACK
    /\ call.system_text = <<"B">>

\* the generation parameters a profile can override
GENERATION_KEYS ==
    {"temperature", "frequency_penalty", "presence_penalty",
     "repetition_penalty", "max_tokens"}

\* the profile the call under study is resolved from is an object
ObjectSelected ==
    /\ call.pc # "none" /\ ~SystemOff
    /\ Known(RequestedKey)
    /\ PROFILE_MAP[RequestedKey].kind = "dict"

\* C16: from an object profile the system text is its non-blank fields
\* system, backstory, style, rules, memory_hint in that order, the overrides
\* are exactly the generation parameters the profile gives, plus memory_turns
\* only when its memory block gives a turn count, and the parameters it does
\* not give take the server defaults where chat builds them
C16_StructuredProfile ==
    ObjectSelected =>
        LET src == PROFILE_MAP[RequestedKey]
            given == DOMAIN src.parameters \cap GENERATION_KEYS
            default == [temperature |-> MARS_TEMPERATURE,
                        frequency_penalty |-> MARS_FREQUENCY_PENALTY,
                        presence_penalty |-> MARS_PRESENCE_PENALTY,
                        repetition_penalty |-> MARS_REPETITION_PENALTY,
                        max_tokens |-> MARS_MAX_TOKENS]
        IN  /\ DOMAIN call.overrides =
                  given \cup (IF "turns" \in DOMAIN src.memory
                              THEN {"memory_turns"} ELSE {})
            /\ \A k \in given : call.overrides[k] = src.parameters[k]
            /\ (PROFILE_MAP = PROFILES_VARIED /\ RequestedKey = K_SOJI) =>
                  /\ call.system_text = SYS_EXAMPLE
                  /\ call.overrides = [k \in {"temperature"} |-> 5]
            /\ (PROFILE_MAP = PROFILES_VARIED /\ RequestedKey = K_FULL) =>
                  /\ call.system_text = <<"S", "\n", "\n", "T", "\n", "\n", "H">>
                  /\ call.overrides = ("temperature" :> 7) @@ ("max_tokens" :> 100)
                                        @@ ("memory_turns" :> 0)
            /\ (PROFILE_MAP = PROFILES /\ RequestedKey = K_SOJI) =>
                  /\ call.system_text = SYS_SOJI
                  /\ call.overrides = ("temperature" :> 5) @@ ("memory_turns" :> 1)
            /\ call.pc = "assembled" =>
                  /\ DOMAIN call.eff_params = GENERATION_KEYS
                  /\ \A k \in GENERATION_KEYS :
                        call.eff_params[k] = IF k \in given THEN src.parameters[k]
                                             ELSE default[k]

\* chat has built the parameters from a profile that gives two of them
C16_Witness ==
    /\ ObjectSelected
    /\ call.pc = "assembled"
    /\ PROFILE_MAP = PROFILES_VARIED /\ RequestedKey = K_FULL
    /\ call.eff_params.max_tokens = 100
    /\ call.eff_params.presence_penalty = MARS_PRESENCE_PENALTY


\* C17: in a session whose only chats so far are k successful ones, all with
\* turn count N, and whose most recent min(k, N) exchanges fit the char
\* budget, the next chat with that N sends exactly those min(k, N) user and
\* assistant pairs as history, in the order they were appended
C17_LastMinKNPairs ==
    \A w \in Threads, sid \in SessionKeys :
        LET N == req[w].memory_turns
            k == pushes
            want == LastN(log[sid], 2 * Min(k, N))
        IN  (/\ Calling(w) /\ req[w].session_id = sid /\ req[w].use_memory
             /\ N = MEMORY_TURNS_DEFAULT
             /\ \A o \in SessionKeys \ {sid} : log[o] = <<>>
             /\ 2 * Min(k, N) <= Len(log[sid])
             /\ TotalChars(want) <= MEMORY_MAX_CHARS) =>
                /\ Included(req[w].msgs) = want
                /\ Len(Included(req[w].msgs)) = 2 * Min(k, N)

\* with N = 2 the third chat is being sent with the four turns of the two
\* chats before it, and a fourth with the four turns of the last two of three
C17_Witness ==
    \E w \in Threads :
        /\ Calling(w) /\ req[w].memory_turns = 2 /\ pushes = 3
        /\ Len(Included(req[w].msgs)) = 4
        /\ Included(req[w].msgs) = log[req[w].session_id]
        /\ MARS_SYSTEM # <<>>


\* C18 as written: every message list handed to the upstream call has at
\* most three messages or at most max(char budget, 2000) characters in all
C18_MessageListBounded ==
    \A w \in Threads :
        Calling(w) =>
            \/ Len(req[w].msgs) <= 3
            \/ TotalChars(req[w].msgs) <= Max(MEMORY_MAX_CHARS, 2000)

\* tok occurs in text
Within(tok, text) == \E i \in 1..Len(text) : MatchAt(text, i, tok)

\* text carries a [[remember: ...]] or [[state: ...]] directive
HasDirective(text) ==
    \/ Within(<<"[", "[", "r", "e", "m", "e", "m", "b", "e", "r", ":">>, text)
    \/ Within(<<"[", "[", "s", "t", "a", "t", "e", ":">>, text)

\* C19 as written: when the incoming message carries a directive, the text
\* sent upstream as the new user message has the directive removed and the
\* fact is replayed in a header message "STATE: k=v", and no user turn
\* stored in a cache or in the table carries a directive
C19_DirectiveNeverStoredOrSent ==
    /\ \A w \in Threads :
          (Calling(w) /\ HasDirective(req[w].raw)) =>
              LET msgs == req[w].msgs
              IN  /\ ~HasDirective(msgs[Len(msgs)].content)
                  /\ \E i \in 1..Len(msgs) :
                        msgs[i].content
                          = <<"S", "T", "A", "T", "E", ":", " ", "k", "=", "v">>
    /\ \A sid \in SessionKeys :
          /\ \A i \in 1..Len(history[sid].items) :
                ~HasDirective(history[sid].items[i].content)
          /\ \A i \in 1..Len(db[sid]) : ~HasDirective(db[sid][i].content)


\* the user turn of an exchange is in items with its assistant turn next
HasExchange(items, message, reply) ==
    \E i \in 1..(Len(items) - 1) :
        /\ items[i] = Turn("user", message)
        /\ items[i + 1] = Turn("assistant", reply)

\* C20 as written: when the only two chats that stored turns were served by
\* the two workers, on one session with room for both exchanges, the
\* session's cache holds both exchanges, each user turn with its own
\* assistant turn right after it, however the two requests interleaved
C20_BothExchangesKept ==
    \A w \in Threads, v \in Threads :
        (/\ w # v
         /\ req[w].pc = "done" /\ req[w].resp.mode = "mars"
         /\ req[v].pc = "done" /\ req[v].resp.mode = "mars"
         /\ req[w].session_id = req[v].session_id
         /\ req[w].memory_turns = 2 /\ req[v].memory_turns = 2
         /\ pushes = 2) =>
            LET items == history[req[w].session_id].items
            IN  /\ HasExchange(items, req[w].message, req[w].resp.reply)
                /\ HasExchange(items, req[v].message, req[v].resp.reply)
                /\ Len(items) = 4


\* the errors chat reports to the caller: rate, auth and input
CALLER_ERRORS == {"too_many_requests", "unauthorized", "'message' is required"}

\* C21 as written: every /chat request ends with a structured response,
\* 200 with a reply (an upstream failure shows as mode "echo" with its error
\* descriptor) or one of the client errors; a malformed turn count in the
\* profile or in the request gives the default and never an unhandled fault
C21_MalformedInputDegrades ==
    \A w \in Threads :
        (req[w].pc = "done" /\ req[w].route = "chat") =>
            \/ /\ req[w].resp.status = 200 /\ req[w].resp.ok
               /\ req[w].resp.mode \in {"mars", "echo"}
            \/ /\ req[w].resp.status \in {400, 401, 429}
               /\ req[w].resp.error \in CALLER_ERRORS


\* C22 as written: with persistence on, a successful chat or a clear that
\* finds a session's rows equal to its cached turns leaves them equal, so
\* that without a restart rows and cache hold the same turn sequence
C22_DurableMatchesCache ==
    [][\A w \in Threads, sid \in SessionKeys :
          (/\ PERSIST_ENABLED
           /\ db[sid] = history[sid].items
           /\ \/ Finishes(w) /\ req'[w].resp.mode = "mars" /\ req[w].session_id = sid
              \/ Takes(w, "clear") /\ req'[w].resp.status = 200
                                   /\ req'[w].session_id = sid) =>
             db'[sid] = history'[sid].items]_vars


\* C23 as written: whenever some request is inside the upstream call the
\* lock of the table is free
C23_LockFreeDuringUpstream ==
    (\E w \in Threads : Calling(w)) => lock = None

\* C23 amended: a request inside the upstream call never holds the lock of
\* the table; the lock is held only by a request that is at a table
\* operation of its own, which it finishes without waiting for upstream
C23_CallerHoldsNoLock ==
    /\ \A w \in Threads : Calling(w) => lock # w
    /\ \A w \in Threads : lock = w => req[w].pc \in DB_PCS

\* one request is inside the upstream call while another holds the lock for
\* an append to the table
C23_Witness ==
    \E w \in Threads, v \in Threads :
        /\ w # v
        /\ Calling(w)
        /\ lock = v /\ req[v].pc = "db_user"
        /\ PERSIST_ENABLED


\* C24: a chat with use_memory off sends upstream only its own messages, the
\* system message if any and the new user message, and when the call
\* succeeds its user and assistant turns are appended to the session's cache
\* and rows and both are trimmed for the chat's turn count, as for any chat
C24_UseMemoryOnlyGatesPrompt ==
    [][\A w \in Threads :
          /\ (Takes(w, "chat") /\ req'[w].pc = "upstream" /\ ~req'[w].use_memory) =>
                LET msgs == req'[w].msgs
                IN  /\ msgs[Len(msgs)] = Message("user", req'[w].message)
                    /\ Len(msgs) <= 2
                    /\ Len(msgs) = 2 => msgs[1].role = "system"
          /\ (Finishes(w) /\ ~req[w].use_memory /\ req'[w].resp.mode = "mars") =>
                LET sid  == req[w].session_id
                    pair == <<Turn("user", req[w].message),
                              Turn("assistant", req'[w].resp.reply)>>
                    N    == req[w].memory_turns
                IN  /\ ~req'[w].resp.used_memory
                    /\ history'[sid].items
                         = LastN(history[sid].items \o pair, 2 * Max(1, N))
                    /\ PERSIST_ENABLED =>
                         db'[sid] = _db_trim_to_limits(db[sid] \o pair, N,
                                                       MEMORY_MAX_CHARS)
                    /\ ~PERSIST_ENABLED => db'[sid] = db[sid]]_vars

\* a chat with use_memory off was answered by upstream after two chats of
\* the session: it was sent without history and the cache holds the newest
\* four turns
C24_Witness ==
    \E w \in Threads :
        /\ req[w].pc = "done" /\ req[w].resp.mode = "mars"
        /\ ~req[w].use_memory
        /\ req[w].msgs = <<Message("user", req[w].message)>>
        /\ pushes = 3
        /\ Len(history[req[w].session_id].items) = 4
        /\ PERSIST_ENABLED /\ db[req[w].session_id] # <<>>


\* the profile the body under study selects: the requested one when its key
\* is known, else the default one when it is known
SelectedProfile ==
    IF Known(RequestedKey) THEN PROFILE_MAP[RequestedKey]
    ELSE PROFILE_MAP[DEFAULT_PROFILE]

\* the selected profile gives a turn count and the switch leaves it in force
ProfileGivesTurns ==
    /\ ~SystemOff
    /\ Known(RequestedKey) \/ Known(DEFAULT_PROFILE)
    /\ SelectedProfile.kind = "dict"
    /\ "turns" \in DOMAIN SelectedProfile.memory

\* the turn count of the body under study: the profile's, else the
\* request's, else the server default
EffectiveTurns ==
    IF ProfileGivesTurns THEN SelectedProfile.memory["turns"].n
    ELSE IF call.payload.memory_turns.t = "num" THEN call.payload.memory_turns.n
    ELSE MEMORY_TURNS_DEFAULT

\* C25: the turn count of a chat is the selected profile's memory turns when
\* it gives one and the system prompt is not switched off, else the
\* request's memory_turns, else the server default; the history read, the
\* trim of cache and rows after the reply, and the response all use it
C25_EffectiveTurnCount ==
    [][\A w \in Threads, sid \in SessionKeys :
          /\ (Takes(w, "chat") /\ req'[w].pc = "upstream"
                /\ req'[w].session_id = sid) =>
                /\ req'[w].memory_turns = EffectiveTurns
                /\ req'[w].use_memory =>
                      Included(req'[w].msgs) = MemoryWindow(sid, EffectiveTurns)
          /\ (Finishes(w) /\ req'[w].resp.mode = "mars"
                /\ req[w].session_id = sid) =>
                LET pair == <<Turn("user", req[w].message),
                              Turn("assistant", req'[w].resp.reply)>>
                IN  /\ req'[w].resp.memory_turns = EffectiveTurns
                    /\ history'[sid].items
                         = LastN(history[sid].items \o pair,
                                 2 * Max(1, EffectiveTurns))
                    /\ PERSIST_ENABLED =>
                         db'[sid] = _db_trim_to_limits(db[sid] \o pair,
                                                       EffectiveTurns,
                                                       MEMORY_MAX_CHARS)]_vars

\* a chat that asked for no turns under a profile that gives one turn was
\* sent with the one exchange of the session and left the cache at two turns
C25_Witness ==
    \E w \in Threads :
        /\ req[w].pc = "done" /\ req[w].resp.mode = "mars"
        /\ call.payload.memory_turns = JNum(0)
        /\ PROFILE_MAP = PROFILES /\ RequestedKey = K_SOJI /\ ~SystemOff
        /\ req[w].memory_turns = 1
        /\ Len(Included(req[w].msgs)) = 2
        /\ Len(history[req[w].session_id].items) = 2
        /\ pushes = 3


\* items is user, assistant, user, assistant, ... and ends with an assistant
Paired(items) ==
    /\ Len(items) % 2 = 0
    /\ \A i \in 1..Len(items) :
          items[i].role = (IF i % 2 = 1 THEN "user" ELSE "assistant")

\* C26: with one request served at a time, after any successful chats,
\* failed chats, clears and restarts with any turn counts every session's
\* cache has even length and alternates user, assistant from a user turn,
\* and its capacity, once set, is even
C26_CacheHoldsWholePairs ==
    \A sid \in SessionKeys :
        /\ Paired(history[sid].items)
        /\ history[sid] # NoDeque =>
              /\ history[sid].maxlen % 2 = 0
              /\ history[sid].items # <<>>

\* a failed chat has been answered on a session whose cache was cut from
\* four turns to two by a smaller turn count
C26_Witness ==
    \E w \in Threads :
        /\ req[w].pc = "done" /\ req[w].resp.mode = "echo"
        /\ history[req[w].session_id].maxlen = 2
        /\ Len(history[req[w].session_id].items) = 2
        /\ Len(log[req[w].session_id]) = 4


\* C27: a /chat request that arrives less than RATE_WINDOW_SECONDS after the
\* last accepted request of its IP is answered 429 "too_many_requests" with
\* no token read, every cache and all rows as they were and the window not
\* restarted; any other /chat request is accepted and restarts the window,
\* also when it is then refused as unauthorized or for its blank message
C27_RateWindow ==
    [][\A w \in Threads, ip \in IPs :
          Takes(w, "chat") =>
             IF sinceHit[ip] < RATE_WINDOW_TICKS
             THEN /\ req'[w].pc = "done"
                  /\ req'[w].resp.status = 429
                  /\ req'[w].resp.error = "too_many_requests"
                  /\ ~req'[w].resp.ok
                  /\ req'[w].token = "unread"
                  /\ history' = history /\ db' = db
                  /\ sinceHit' = sinceHit
             ELSE /\ req'[w].resp.status # 429
                  /\ req'[w].token # "unread"
                  /\ sinceHit'[ip] = 0]_vars

\* a request was refused half way through the window, 1.25 s after the
\* accepted one, while a session had history
C27_Witness ==
    \E w \in Threads, ip \in IPs :
        /\ req[w].pc = "done" /\ req[w].route = "chat"
        /\ req[w].resp.status = 429
        /\ sinceHit[ip] = 1
        /\ \E k \in SessionKeys : history[k].items # <<>>


\* the key chat stores the turns of a session id under
ChatKey(session_id) == Prefix(Strip(session_id), 128)

\* C28 as written: a clear of a session id leaves no turn under the key chat
\* uses for that id, in cache and table, and an export of a session id
\* returns what is stored under the key chat uses for that id
C28_SameKeyEverywhere ==
    [][\A w \in Threads, k \in DOMAIN history :
          /\ (Takes(w, "clear") /\ req'[w].resp.status = 200
                /\ ChatKey(req'[w].session_id) = k) =>
                (history'[k].items = <<>> /\ db'[k] = <<>>)
          /\ (Takes(w, "export") /\ req'[w].resp.status = 200
                /\ ChatKey(req'[w].session_id) = k) =>
                req'[w].resp.history = mem_export(k, req'[w].memory_turns)]_vars

====
